---- MODULE Spec2Model ----
(***************************************************************************)
(* Model of apko's build core:                                             *)
(*   pkg/build/build_implementation.go   buildImage, additionalTags,       *)
(*                                       BuildTarball                      *)
(*   pkg/sbom/generator/spdx/spdx.go     stringToIdentifier, Generate      *)
(* Strings whose bytes matter (identifiers, digests) are sequences of byte *)
(* values; errors are sequences of messages, outermost wrapper first.      *)
(***************************************************************************)
EXTENDS Integers, Sequences, FiniteSets, TLC

VARIABLES
    pc,         \* position of the single control flow of a build Context
    o,          \* bc.o: the options (build metadata) of the Context
    tree,       \* bc.fs: path -> content (0 absent, 1 written, 2 pre-existing)
    tree0,      \* the tree as it was when the running buildImage call began
    ran,        \* the step calls of the current buildImage call and their error
    ret,        \* the error returned by the last finished call
    lastCall,   \* which call returned last
    log,        \* messages given to bc.Logger()
    calls,      \* number of calls started on this Context
    clock,      \* wall-clock time
    outfile,    \* content of the file behind *os.File outfile
    buf,        \* bytes held by the bufio.Writer
    gzw,        \* the gzip writer: plain bytes of the unfinished block, header flag
    gzwIn,      \* every byte handed to the gzip writer so far
    digest,     \* bytes seen by the digest sha256 accumulator
    diffid,     \* bytes seen by the diffid sha256 accumulator
    tw,         \* the tarball context: its source date epoch
    todo,       \* entries WriteTar has still to serialise
    walks,      \* number of traversals of the tree started by this call
    out,        \* values returned by the last BuildTarball call
    results,    \* one record per successful BuildTarball call
    sb,         \* the SBOM generator: phase, options, document, error
    id          \* the identifier transform: phase, input, output, second output

buildVars ==
    <<pc, o, tree, tree0, ran, ret, lastCall, log, calls, clock, outfile, buf,
      gzw, gzwIn, digest, diffid, tw, todo, walks, out, results>>

vars ==
    <<pc, o, tree, tree0, ran, ret, lastCall, log, calls, clock, outfile, buf,
      gzw, gzwIn, digest, diffid, tw, todo, walks, out, results, sb, id>>

-----------------------------------------------------------------------------
(* Bounds *)

MaxCalls == 2

MaxClock == 2

MaxPkgs == 2

MaxLen == 3

GzBlock == 2

BufSize == 4

-----------------------------------------------------------------------------
(* Errors *)

NoErr == <<>>

EIO == <<"EIO">>

ErrOSReleaseAlreadyPresent == <<"os-release already present">>

\* fmt.Errorf("msg: %w", err)
Wrap(msg, err) == <<msg>> \o err

\* errors.Is(err, target) for a sentinel target
Is(err, target) == \E i \in 1..Len(err) : <<err[i]>> = target

-----------------------------------------------------------------------------
(* The filesystem tree *)

\* The entries of the tree, in the order a traversal visits them.
TarOrder ==
    << "apk", "dev", "etc/os-release", "etc/passwd", "ldconfig", "paths",
       "s6", "usr/bin/busybox-links" >>

Paths == {TarOrder[i] : i \in 1..Len(TarOrder)}

EmptyTree == [p \in Paths |-> 0]

\* The calls of buildImage in the order of the source.
StepOrder ==
    << "FixateWorld", "additionalTags", "mutateAccounts", "mutatePaths",
       "GenerateOSRelease", "WriteSupervisionTree", "GetInstalled",
       "installBusyboxLinks", "installLdconfigLinks", "installCharDevices" >>

Called(step, err) == Append(ran, [step |-> step, err |-> err])

\* return from the running call with the given error
Return(call, err) ==
    /\ pc' = "idle"
    /\ ret' = err
    /\ lastCall' = call

tarVars == <<outfile, buf, gzw, gzwIn, digest, diffid, tw, todo, walks, out, results>>

otherVars == <<sb, id>>

-----------------------------------------------------------------------------
(* buildImage *)

buildImageCall ==
    /\ pc = "idle"
    /\ calls < MaxCalls
    /\ calls' = calls + 1
    /\ pc' = "FixateWorld"
    /\ ran' = <<>>
    /\ tree0' = tree
    /\ UNCHANGED <<o, tree, ret, lastCall, log, clock>>
    /\ UNCHANGED tarVars
    /\ UNCHANGED otherVars

\* A step that writes one path of the tree, or fails with EIO, and whose
\* error buildImage wraps with msg.
WrappedStep(step, path, msg, next) ==
    /\ pc = step
    /\ \E ok \in BOOLEAN :
        IF ok
        THEN /\ tree' = [tree EXCEPT ![path] = 1]
             /\ ran' = Called(step, NoErr)
             /\ pc' = next
             /\ UNCHANGED <<ret, lastCall>>
        ELSE /\ ran' = Called(step, EIO)
             /\ Return("buildImage", Wrap(msg, EIO))
             /\ UNCHANGED tree
    /\ UNCHANGED <<o, tree0, log, calls, clock>>
    /\ UNCHANGED tarVars
    /\ UNCHANGED otherVars

FixateWorld ==
    WrappedStep("FixateWorld", "apk", "installing apk packages", "additionalTags")

\* the tags chainguardAPK.AdditionalTags can derive
TagSet == {"t1"}

appendTagsMutant(tags, at) == at

appendTags(tags, at) == tags \o at

additionalTags ==
    /\ pc = "additionalTags"
    /\ \E res \in {"err", "nil", "tags"} :
        CASE res = "err" ->
                /\ ran' = Called("additionalTags", EIO)
                /\ Return("buildImage", Wrap("adding additional tags", EIO))
                /\ UNCHANGED o
          [] res = "nil" ->
                /\ ran' = Called("additionalTags", NoErr)
                /\ pc' = "mutateAccounts"
                /\ UNCHANGED <<o, ret, lastCall>>
          [] res = "tags" ->
                \E t \in TagSet :
                    /\ o' = [o EXCEPT !.Tags = appendTags(o.Tags, <<t>>)]
                    /\ ran' = Called("additionalTags", NoErr)
                    /\ pc' = "mutateAccounts"
                    /\ UNCHANGED <<ret, lastCall>>
    /\ UNCHANGED <<tree, tree0, log, calls, clock>>
    /\ UNCHANGED tarVars
    /\ UNCHANGED otherVars

mutateAccountsMutant ==
    WrappedStep("mutateAccounts", "etc/passwd", "failed to mutate accounts", "GenerateOSRelease")

mutateAccounts ==
    WrappedStep("mutateAccounts", "etc/passwd", "failed to mutate accounts", "mutatePaths")

mutatePaths ==
    WrappedStep("mutatePaths", "paths", "failed to mutate paths", "GenerateOSRelease")

\* GenerateOSRelease(fs, o, ic): the outcomes of the call on a tree
OSReleaseOutcomes(t) ==
    IF t["etc/os-release"] # 0
    THEN {[err |-> ErrOSReleaseAlreadyPresent, tree |-> t]}
    ELSE {[err |-> NoErr, tree |-> [t EXCEPT !["etc/os-release"] = 1]],
          [err |-> EIO, tree |-> t]}

Warning == "did not generate /etc/os-release"

osReleaseRecoverableMutant(err) == FALSE

osReleaseRecoverable(err) == Is(err, ErrOSReleaseAlreadyPresent)

GenerateOSRelease ==
    /\ pc = "GenerateOSRelease"
    /\ \E r \in OSReleaseOutcomes(tree) :
        /\ tree' = r.tree
        /\ ran' = Called("GenerateOSRelease", r.err)
        /\ IF r.err = NoErr
           THEN /\ pc' = "WriteSupervisionTree"
                /\ UNCHANGED <<ret, lastCall, log>>
           ELSE IF osReleaseRecoverable(r.err)
           THEN /\ log' = log \cup {Warning}
                /\ pc' = "WriteSupervisionTree"
                /\ UNCHANGED <<ret, lastCall>>
           ELSE /\ Return("buildImage", Wrap("failed to generate /etc/os-release", r.err))
                /\ UNCHANGED log
    /\ UNCHANGED <<o, tree0, calls, clock>>
    /\ UNCHANGED tarVars
    /\ UNCHANGED otherVars

WriteSupervisionTree ==
    WrappedStep("WriteSupervisionTree", "s6", "failed to write supervision tree", "GetInstalled")

GetInstalled ==
    /\ pc = "GetInstalled"
    /\ \E ok \in BOOLEAN :
        IF ok
        THEN /\ ran' = Called("GetInstalled", NoErr)
             /\ pc' = "installBusyboxLinks"
             /\ UNCHANGED <<ret, lastCall>>
        ELSE /\ ran' = Called("GetInstalled", EIO)
             /\ Return("buildImage", Wrap("getting installed packages", EIO))
    /\ UNCHANGED <<o, tree, tree0, log, calls, clock>>
    /\ UNCHANGED tarVars
    /\ UNCHANGED otherVars

\* A step whose error buildImage returns as it is.
BareStep(step, path, next) ==
    /\ pc = step
    /\ \E ok \in BOOLEAN :
        IF ok
        THEN /\ tree' = [tree EXCEPT ![path] = 1]
             /\ ran' = Called(step, NoErr)
             /\ IF next = "return"
                THEN Return("buildImage", NoErr)
                ELSE /\ pc' = next
                     /\ UNCHANGED <<ret, lastCall>>
        ELSE /\ ran' = Called(step, EIO)
             /\ Return("buildImage", EIO)
             /\ UNCHANGED tree
    /\ UNCHANGED <<o, tree0, log, calls, clock>>
    /\ UNCHANGED tarVars
    /\ UNCHANGED otherVars

installBusyboxLinks ==
    BareStep("installBusyboxLinks", "usr/bin/busybox-links", "installLdconfigLinks")

installLdconfigLinks ==
    BareStep("installLdconfigLinks", "ldconfig", "installCharDevices")

installCharDevices ==
    BareStep("installCharDevices", "dev", "return")

-----------------------------------------------------------------------------
(* BuildTarball *)

RECURSIVE SeqSum(_)
SeqSum(s) ==
    IF Len(s) = 0 THEN 0
    ELSE IF Len(s) = 1 THEN s[1]
    ELSE LET m == Len(s) \div 2
         IN SeqSum(SubSeq(s, 1, m)) + SeqSum(SubSeq(s, m + 1, Len(s)))

\* the paths present in the tree, in traversal order
TarEntries(t) == SelectSeq(TarOrder, LAMBDA p : t[p] # 0)

PathCode(p) == CHOOSE i \in 1..Len(TarOrder) : TarOrder[i] = p

\* One archive entry: header (path, modification time) and content.
TarEntry(p, t, epoch) == <<PathCode(p), epoch, t[p]>>

\* end-of-archive marker
TarEnd == <<0>>

\* The complete tar stream of a tree under a tarball context.
RECURSIVE TarOf(_, _, _)
TarOf(entries, t, epoch) ==
    IF entries = <<>> THEN TarEnd
    ELSE TarEntry(Head(entries), t, epoch) \o TarOf(Tail(entries), t, epoch)

\* gzip: header, deflated blocks, trailer (checksum and length of the input)
GzHeader == <<31, 139>>

Deflate(block) == [i \in 1..Len(block) |-> block[i] + 100]

GzTrailer(plain) == <<SeqSum(plain) % 256, Len(plain) % 256>>

\* gzip.Writer.Write: the header goes out on the first write, then every
\* full block; the rest stays in the writer.
GzWrite(g, p) ==
    LET all == g.pending \o p
        n == (Len(all) \div GzBlock) * GzBlock
    IN [gzw |-> [pending |-> SubSeq(all, n + 1, Len(all)), header |-> TRUE],
        emit |-> (IF g.header THEN <<>> ELSE GzHeader) \o Deflate(SubSeq(all, 1, n))]

\* gzip.Writer.Close: header if nothing was written, the last block, trailer
GzClose(g, plain) ==
    (IF g.header THEN <<>> ELSE GzHeader) \o Deflate(g.pending) \o GzTrailer(plain)

\* bufio.Writer.Write onto file content f with buffered bytes b
RECURSIVE BufWrite(_, _, _)
BufWrite(b, f, p) ==
    IF Len(p) > BufSize - Len(b)
    THEN IF Len(b) = 0
         THEN [buf |-> <<>>, file |-> f \o p]
         ELSE LET n == BufSize - Len(b)
              IN BufWrite(<<>>, f \o b \o SubSeq(p, 1, n), SubSeq(p, n + 1, Len(p)))
    ELSE [buf |-> b \o p, file |-> f]

bufFlushMutant(b, f) == f

\* bufio.Writer.Flush
bufFlush(b, f) == f \o b

DefaultTarballPath(opts) == opts.TempDir \o "/" \o opts.TarballFileName

ZeroOut == [path |-> "", diffid |-> <<>>, digest |-> <<>>, size |-> 0]

\* return "", nil, nil, 0, err
Fail(msg) ==
    /\ Return("BuildTarball", Wrap(msg, EIO))
    /\ out' = ZeroOut

\* the value line 57 stores in bc.o.TarballPath: outfile.Name()
tarballPath(opts) ==
    IF opts.TarballPath # "" THEN opts.TarballPath ELSE DefaultTarballPath(opts)

\* lines 46-58: create the output file and record its name
BuildTarballCreate ==
    /\ pc = "idle"
    /\ calls < MaxCalls
    /\ calls' = calls + 1
    /\ walks' = 0
    /\ \E ok \in BOOLEAN :
        IF ok
        THEN /\ outfile' = <<>>
             /\ o' = [o EXCEPT !.TarballPath = tarballPath(o)]
             /\ pc' = "NewContext"
             /\ UNCHANGED <<ret, lastCall, out>>
        ELSE /\ Fail("opening the build context tarball path failed")
             /\ UNCHANGED <<o, outfile>>
    /\ UNCHANGED <<tree, tree0, ran, log, clock>>
    /\ UNCHANGED <<buf, gzw, gzwIn, digest, diffid, tw, todo, results>>
    /\ UNCHANGED otherVars

epochMutant(opts, now) == now

\* the time the tarball context stamps on entries
epoch(opts, now) == opts.SourceDateEpoch

\* lines 61-73: the tarball context and the chain of writers
NewContext ==
    /\ pc = "NewContext"
    /\ \E ok \in BOOLEAN :
        IF ok
        THEN /\ tw' = [SourceDateEpoch |-> epoch(o, clock)]
             /\ digest' = <<>>
             /\ buf' = <<>>
             /\ gzw' = [pending |-> <<>>, header |-> FALSE]
             /\ gzwIn' = <<>>
             /\ diffid' = <<>>
             /\ pc' = "WriteTar"
             /\ UNCHANGED <<ret, lastCall, out>>
        ELSE /\ Fail("failed to construct tarball build context")
             /\ UNCHANGED <<tw, digest, buf, gzw, gzwIn, diffid>>
    /\ UNCHANGED <<o, tree, tree0, ran, log, calls, clock>>
    /\ UNCHANGED <<outfile, todo, walks, results>>
    /\ UNCHANGED otherVars

\* io.MultiWriter(diffid, gzw).Write(p), gzw writing to
\* io.MultiWriter(digest, buf)
WriteChunk(p) ==
    LET g == GzWrite(gzw, p)
        b == BufWrite(buf, outfile, g.emit)
    IN /\ diffid' = diffid \o p
       /\ gzwIn' = gzwIn \o p
       /\ gzw' = g.gzw
       /\ digest' = digest \o g.emit
       /\ buf' = b.buf
       /\ outfile' = b.file

\* line 75: WriteTar lists the tree
WriteTarBegin ==
    /\ pc = "WriteTar"
    /\ \E ok \in BOOLEAN :
        IF ok
        THEN /\ todo' = TarEntries(tree)
             /\ walks' = walks + 1
             /\ pc' = "WriteTarEntry"
             /\ UNCHANGED <<ret, lastCall, out>>
        ELSE /\ Fail("failed to generate tarball for image")
             /\ UNCHANGED <<todo, walks>>
    /\ UNCHANGED <<o, tree, tree0, ran, log, calls, clock>>
    /\ UNCHANGED <<outfile, buf, gzw, gzwIn, digest, diffid, tw, results>>
    /\ UNCHANGED otherVars

\* line 75: WriteTar writes one entry, or the end of the archive
WriteTarEntry ==
    /\ pc = "WriteTarEntry"
    /\ \E ok \in BOOLEAN :
        IF ok
        THEN IF todo # <<>>
             THEN /\ WriteChunk(TarEntry(Head(todo), tree, tw.SourceDateEpoch))
                  /\ todo' = Tail(todo)
                  /\ UNCHANGED <<pc, ret, lastCall, out>>
             ELSE /\ WriteChunk(TarEnd)
                  /\ pc' = "gzwClose"
                  /\ UNCHANGED <<todo, ret, lastCall, out>>
        ELSE /\ Fail("failed to generate tarball for image")
             /\ UNCHANGED <<todo, outfile, buf, gzw, gzwIn, digest, diffid>>
    /\ UNCHANGED <<o, tree, tree0, ran, log, calls, clock>>
    /\ UNCHANGED <<tw, walks, results>>
    /\ UNCHANGED otherVars

\* lines 78-80: gzw.Close()
gzwClose ==
    /\ pc = "gzwClose"
    /\ \E ok \in BOOLEAN :
        IF ok
        THEN LET emit == GzClose(gzw, gzwIn)
                 b == BufWrite(buf, outfile, emit)
             IN /\ digest' = digest \o emit
                /\ buf' = b.buf
                /\ outfile' = b.file
                /\ gzw' = [pending |-> <<>>, header |-> TRUE]
                /\ pc' = "bufFlush"
                /\ UNCHANGED <<ret, lastCall, out>>
        ELSE /\ Fail("closing gzip writer")
             /\ UNCHANGED <<digest, buf, outfile, gzw>>
    /\ UNCHANGED <<o, tree, tree0, ran, log, calls, clock>>
    /\ UNCHANGED <<gzwIn, diffid, tw, todo, walks, results>>
    /\ UNCHANGED otherVars

\* lines 82-84: buf.Flush()
Flush ==
    /\ pc = "bufFlush"
    /\ \E ok \in BOOLEAN :
        IF ok
        THEN /\ outfile' = bufFlush(buf, outfile)
             /\ buf' = <<>>
             /\ pc' = "Stat"
             /\ UNCHANGED <<ret, lastCall, out>>
        ELSE /\ Fail("flushing")
             /\ UNCHANGED <<outfile, buf>>
    /\ UNCHANGED <<o, tree, tree0, ran, log, calls, clock>>
    /\ UNCHANGED <<gzw, gzwIn, digest, diffid, tw, todo, walks, results>>
    /\ UNCHANGED otherVars

\* lines 86-92: outfile.Stat() and the successful return
Stat ==
    /\ pc = "Stat"
    /\ \E ok \in BOOLEAN :
        IF ok
        THEN /\ out' = [path |-> o.TarballPath, diffid |-> diffid,
                        digest |-> digest, size |-> Len(outfile)]
             /\ Return("BuildTarball", NoErr)
             /\ log' = log \cup {"built image layer tarball"}
             /\ results' = Append(results,
                    [tree |-> tree, epoch |-> o.SourceDateEpoch, clock |-> clock,
                     archive |-> outfile, digest |-> digest, diffid |-> diffid])
        ELSE /\ Fail("stat")
             /\ UNCHANGED <<log, results>>
    /\ UNCHANGED <<o, tree, tree0, ran, calls, clock>>
    /\ UNCHANGED <<outfile, buf, gzw, gzwIn, digest, diffid, tw, todo, walks>>
    /\ UNCHANGED otherVars

\* wall-clock time passes between calls
Tick ==
    /\ pc = "idle"
    /\ clock < MaxClock
    /\ clock' = clock + 1
    /\ UNCHANGED <<pc, o, tree, tree0, ran, ret, lastCall, log, calls>>
    /\ UNCHANGED tarVars
    /\ UNCHANGED otherVars

-----------------------------------------------------------------------------
(* The build Context *)

SourceDateEpochs == {1, 2}

IdleSB == [phase |-> "off"]

IdleID == [phase |-> "off"]

Init ==
    /\ pc = "idle"
    /\ o \in [Tags : {<<>>, <<"latest">>},
              TarballPath : {"", "/out/layer.tar.gz"},
              SourceDateEpoch : SourceDateEpochs,
              WorkDir : {"/work"},
              TempDir : {"/tmp/apko"},
              TarballFileName : {"apko.tar.gz"}]
    /\ tree \in {EmptyTree, [EmptyTree EXCEPT !["etc/os-release"] = 2]}
    /\ tree0 = tree
    /\ ran = <<>>
    /\ ret = NoErr
    /\ lastCall = "none"
    /\ log = {}
    /\ calls = 0
    /\ clock = 0
    /\ outfile = <<>>
    /\ buf = <<>>
    /\ gzw = [pending |-> <<>>, header |-> FALSE]
    /\ gzwIn = <<>>
    /\ digest = <<>>
    /\ diffid = <<>>
    /\ tw = [SourceDateEpoch |-> 0]
    /\ todo = <<>>
    /\ walks = 0
    /\ out = ZeroOut
    /\ results = <<>>
    /\ sb = IdleSB
    /\ id = IdleID

Next ==
    \/ buildImageCall
    \/ FixateWorld
    \/ additionalTags
    \/ mutateAccounts
    \/ mutatePaths
    \/ GenerateOSRelease
    \/ WriteSupervisionTree
    \/ GetInstalled
    \/ installBusyboxLinks
    \/ installLdconfigLinks
    \/ installCharDevices
    \/ BuildTarballCreate
    \/ NewContext
    \/ WriteTarBegin
    \/ WriteTarEntry
    \/ gzwClose
    \/ Flush
    \/ Stat
    \/ Tick

Spec == Init /\ [][Next]_vars

-----------------------------------------------------------------------------
(* stringToIdentifier *)

\* the bytes the negated class of validIDCharsRe, [^a-zA-Z0-9-.], leaves out
validIDChars == (97..122) \cup (65..90) \cup (48..57) \cup {45, 46}

RuneError == 65533

\* string(b) of a byte b: the UTF-8 encoding of the code point b
ByteToString(b) ==
    IF b < 128 THEN <<b>> ELSE <<192 + (b \div 64), 128 + (b % 64)>>

\* utf8.DecodeRuneInString for sequences of one or two bytes
DecodeRuneInString(s) ==
    IF s = <<>> THEN RuneError
    ELSE IF s[1] < 128 THEN s[1]
    ELSE IF /\ s[1] \in 194..223
            /\ Len(s) >= 2
            /\ s[2] \in 128..191
         THEN (s[1] - 192) * 64 + (s[2] - 128)
    ELSE RuneError

\* the %d of fmt.Sprintf
RECURSIVE Decimal(_)
Decimal(n) ==
    IF n < 10 THEN <<48 + n>> ELSE Decimal(n \div 10) \o <<48 + (n % 10)>>

\* concatenation of a sequence of sequences
RECURSIVE Flatten(_)
Flatten(ss) ==
    IF Len(ss) = 0 THEN <<>>
    ELSE IF Len(ss) = 1 THEN ss[1]
    ELSE LET m == Len(ss) \div 2
         IN Flatten(SubSeq(ss, 1, m)) \o Flatten(SubSeq(ss, m + 1, Len(ss)))

escapeRunMutant(s) == <<67>> \o Decimal(DecodeRuneInString(s))

\* the function given to ReplaceAllStringFunc: "C%d" for each byte of s
escapeRun(s) ==
    Flatten([i \in 1..Len(s) |->
        <<67>> \o Decimal(DecodeRuneInString(ByteToString(s[i])))])

\* the last index of the match of validIDCharsRe that starts at index i
MatchEnd(in, i) ==
    CHOOSE j \in i..Len(in) :
        /\ \A k \in i..j : in[k] \notin validIDChars
        /\ j = Len(in) \/ in[j + 1] \in validIDChars

\* validIDCharsRe.ReplaceAllStringFunc(in, escapeRun): text outside the
\* matches is copied, each match is replaced as a whole
stringToIdentifier(in) ==
    Flatten([i \in 1..Len(in) |->
        IF in[i] \in validIDChars THEN <<in[i]>>
        ELSE IF i = 1 \/ in[i - 1] \in validIDChars
             THEN escapeRun(SubSeq(in, i, MatchEnd(in, i)))
        ELSE <<>>])

\* "Hello World!"
HelloWorld ==
    <<72, 101, 108, 108, 111, 32, 87, 111, 114, 108, 100, 33>>

\* "HelloC32WorldC33"
HelloWorldId ==
    <<72, 101, 108, 108, 111, 67, 51, 50, 87, 111, 114, 108, 100, 67, 51, 51>>

\* e-acute in UTF-8
EAcute ==
    <<195, 169>>

\* "C195C169"
EAcuteId ==
    <<67, 49, 57, 53, 67, 49, 54, 57>>

\* a, Z, 9, C, '-', '.', ' ', '!', ':', '_', and the two bytes of e-acute
IdAlphabet == {97, 90, 57, 67, 45, 46, 32, 33, 58, 95, 195, 169}

RECURSIVE SeqsUpTo(_, _)
SeqsUpTo(S, n) ==
    IF n = 0 THEN {<<>>}
    ELSE LET shorter == SeqsUpTo(S, n - 1)
         IN shorter \cup {Append(s, x) : s \in shorter, x \in S}

IdInputs == SeqsUpTo(IdAlphabet, MaxLen) \cup {HelloWorld}

Identify ==
    /\ id.phase = "in"
    /\ id' = [id EXCEPT !.phase = "out", !.out = stringToIdentifier(id.in)]
    /\ UNCHANGED buildVars
    /\ UNCHANGED sb

IdentifyAgain ==
    /\ id.phase = "out"
    /\ id' = [id EXCEPT !.phase = "done", !.again = stringToIdentifier(id.out)]
    /\ UNCHANGED buildVars
    /\ UNCHANGED sb

\* no build Context: only the package-level functions of spdx are used
NoBuild ==
    /\ pc = "off"
    /\ o = [Tags |-> <<>>, TarballPath |-> "", SourceDateEpoch |-> 0,
            WorkDir |-> "", TempDir |-> "", TarballFileName |-> ""]
    /\ tree = EmptyTree
    /\ tree0 = EmptyTree
    /\ ran = <<>>
    /\ ret = NoErr
    /\ lastCall = "none"
    /\ log = {}
    /\ calls = 0
    /\ clock = 0
    /\ outfile = <<>>
    /\ buf = <<>>
    /\ gzw = [pending |-> <<>>, header |-> FALSE]
    /\ gzwIn = <<>>
    /\ digest = <<>>
    /\ diffid = <<>>
    /\ tw = [SourceDateEpoch |-> 0]
    /\ todo = <<>>
    /\ walks = 0
    /\ out = ZeroOut
    /\ results = <<>>

InitId ==
    /\ NoBuild
    /\ sb = IdleSB
    /\ id \in [phase : {"in"}, in : IdInputs, out : {<<>>}, again : {<<>>}]

NextId ==
    \/ Identify
    \/ IdentifyAgain

SpecId == InitId /\ [][NextId]_vars

\* what the claim says of one byte
ByteId(b) == IF b \in validIDChars THEN <<b>> ELSE <<67>> \o Decimal(b)

RECURSIVE PerByte(_)
PerByte(s) == IF s = <<>> THEN <<>> ELSE ByteId(Head(s)) \o PerByte(Tail(s))

\* C10: stringToIdentifier keeps every byte of [a-zA-Z0-9-.] and replaces
\* every other byte by "C" and the decimal value of that byte, one segment
\* per byte; its output has only allowed characters, and applying it to its
\* output changes nothing.
IdentifierTransform ==
    id.phase = "done" =>
        /\ id.out = PerByte(id.in)
        /\ \A i \in 1..Len(id.out) : id.out[i] \in validIDChars
        /\ id.again = id.out
        /\ id.in = HelloWorld => id.out = HelloWorldId
        /\ id.in = EAcute => id.out = EAcuteId

\* a two-byte character was escaped
IdentifierTransformWitness ==
    /\ id.phase = "done"
    /\ id.in = EAcute
    /\ id.out = EAcuteId
    /\ id.again = id.out

-----------------------------------------------------------------------------
(* SPDX.Generate *)

\* "SPDXRef-Package-"
SPDXRefPackage ==
    <<83, 80, 68, 88, 82, 101, 102, 45, 80, 97, 99, 107, 97, 103, 101, 45>>

\* "SPDXRef-"
SPDXRef ==
    <<83, 80, 68, 88, 82, 101, 102, 45>>

\* "index.docker.io/library/"
DockerLibrary ==
    <<105, 110, 100, 101, 120, 46, 100, 111, 99, 107, 101, 114, 46, 105, 111,
      47, 108, 105, 98, 114, 97, 114, 121, 47>>

\* "sha256:"
Sha256Prefix ==
    <<115, 104, 97, 50, 53, 54, 58>>

\* "SHA256"
SHA256 ==
    <<83, 72, 65, 50, 53, 54>>

\* "SHA1"
SHA1 ==
    <<83, 72, 65, 49>>

\* "sbom"
SbomName ==
    <<115, 98, 111, 109>>

\* strings.TrimPrefix
TrimPrefix(s, prefix) ==
    IF Len(s) >= Len(prefix) /\ SubSeq(s, 1, Len(prefix)) = prefix
    THEN SubSeq(s, Len(prefix) + 1, Len(s))
    ELSE s

\* strings.Contains(s, "/")
ContainsSlash(s) == \E i \in 1..Len(s) : s[i] = 47

HexDigit(n) == IF n < 10 THEN 48 + n ELSE 87 + n

\* fmt.Sprintf("%x", bytes)
RECURSIVE Hex(_)
Hex(bytes) ==
    IF bytes = <<>> THEN <<>>
    ELSE <<HexDigit(Head(bytes) \div 16), HexDigit(Head(bytes) % 16)>>
         \o Hex(Tail(bytes))

\* lines 172-177: the checksum list of the image node
imageChecksum(imageDigest) ==
    <<[Algorithm |-> SHA256, Value |-> TrimPrefix(imageDigest, Sha256Prefix)]>>

imagePackage(opts) ==
    [ID |-> stringToIdentifier(SPDXRefPackage \o opts.ImageInfo.ImageDigest),
     Name |-> opts.ImageInfo.Name \o <<64>> \o opts.ImageInfo.ImageDigest,
     Version |-> <<>>,
     LicenseDeclared |-> "NOASSERTION",
     Description |-> "apko container image",
     Checksums |-> imageChecksum(opts.ImageInfo.ImageDigest)]

apkPackage(opts, pkg) ==
    [ID |-> stringToIdentifier(SPDXRefPackage \o pkg.Name \o <<45>> \o pkg.Version),
     Name |-> pkg.Name,
     Version |-> pkg.Version,
     LicenseDeclared |-> "NOASSERTION",
     Description |-> pkg.Description,
     Checksums |-> <<[Algorithm |-> SHA1, Value |-> Hex(pkg.Checksum)]>>]

layerPackage(opts) ==
    LET named == IF opts.ImageInfo.Name # <<>>
                 THEN opts.ImageInfo.Name \o <<64>> \o opts.ImageInfo.LayerDigest
                 ELSE opts.ImageInfo.LayerDigest
        x == IF ContainsSlash(opts.ImageInfo.Reference) THEN <<>> ELSE DockerLibrary
        layerPackageName ==
            IF opts.ImageInfo.Reference # <<>>
            THEN SPDXRef \o x \o opts.ImageInfo.Reference
            ELSE named
        mainPkgID == stringToIdentifier(layerPackageName)
    IN [ID |-> SPDXRefPackage \o mainPkgID,
        Name |-> layerPackageName,
        Version |-> opts.OS.Version,
        LicenseDeclared |-> "NOASSERTION",
        Description |-> "apko operating system layer",
        Checksums |-> <<>>]

relationshipMutant(element, related) ==
    [Element |-> related, Type |-> "CONTAINS", Related |-> element]

\* Relationship{Element: ..., Type: "CONTAINS", Related: ...}
relationship(element, related) ==
    [Element |-> element, Type |-> "CONTAINS", Related |-> related]

\* lines 118-120: the identifier of a package node is made again, with the
\* layer's identifier in it
layerScoped(p, layerID, pkg) ==
    [p EXCEPT !.ID = stringToIdentifier(
        SPDXRefPackage \o layerID \o <<45>> \o pkg.Name \o <<45>> \o pkg.Version)]

\* lines 111-130: the package node the loop appends for the i-th package
apkNode(opts, layer, i) ==
    layerScoped(apkPackage(opts, opts.Packages[i]), layer.ID, opts.Packages[i])

packagesMutant(hasImage, image, layer, nodes) == <<layer>> \o nodes

\* lines 100, 109, 122: doc.Packages after the appends
packages(hasImage, image, layer, nodes) ==
    (IF hasImage THEN <<image>> ELSE <<>>) \o <<layer>> \o nodes

\* lines 72-130: the document Generate builds
Document(opts) ==
    LET layer == layerPackage(opts)
        hasImage == opts.ImageInfo.ImageDigest # <<>>
        image == imagePackage(opts)
        n == Len(opts.Packages)
        nodes == [i \in 1..n |-> apkNode(opts, layer, i)]
    IN [Name |-> IF opts.ImageInfo.LayerDigest # <<>>
                 THEN SbomName \o <<45>> \o opts.ImageInfo.LayerDigest
                 ELSE SbomName,
        DocumentDescribes |-> IF hasImage THEN <<image.ID>> ELSE <<layer.ID>>,
        Packages |-> packages(hasImage, image, layer, nodes),
        Relationships |->
            (IF hasImage THEN <<relationship(image.ID, layer.ID)>> ELSE <<>>)
            \o [i \in 1..n |-> relationship(layer.ID, nodes[i].ID)]]

NoDocument == [Name |-> <<>>, DocumentDescribes |-> <<>>, Packages |-> <<>>,
               Relationships |-> <<>>]

\* Generate(opts, path): build the document, create the file, encode
Generate ==
    /\ sb.phase = "opts"
    /\ \E outcome \in {"ok", "create", "encode"} :
        sb' = [sb EXCEPT
                !.phase = "done",
                !.doc = Document(sb.opts),
                !.file = IF outcome = "ok" THEN Document(sb.opts) ELSE NoDocument,
                !.err = CASE outcome = "ok" -> NoErr
                          [] outcome = "create" ->
                                Wrap("opening SBOM path for writing", EIO)
                          [] outcome = "encode" ->
                                Wrap("encoding spdx sbom", EIO)]
    /\ UNCHANGED buildVars
    /\ UNCHANGED id

\* "sha256:ab", "sha512:ab": image digests
Sha256ab ==
    <<115, 104, 97, 50, 53, 54, 58, 97, 98>>

Sha512ab ==
    <<115, 104, 97, 53, 49, 50, 58, 97, 98>>

\* "sha256:cd": a layer digest
Sha256cd ==
    <<115, 104, 97, 50, 53, 54, 58, 99, 100>>

\* "img"
ImgName ==
    <<105, 109, 103>>

\* "a/b", "b": references
RefA ==
    <<97, 47, 98>>

RefB ==
    <<98>>

\* busybox 1.0 and glibc 2_r1, as the resolver gives them
PkgBusybox ==
    [Name |-> <<98, 117, 115, 121, 98, 111, 120>>, Version |-> <<49, 46, 48>>,
     Description |-> "busybox", Checksum |-> <<171>>]

PkgGlibc ==
    [Name |-> <<103, 108, 105, 98, 99>>, Version |-> <<50, 95, 114, 49>>,
     Description |-> "glibc", Checksum |-> <<1, 239>>]

SbomInputs ==
    [ImageInfo : [ImageDigest : {<<>>, Sha256ab, Sha512ab},
                  LayerDigest : {<<>>, Sha256cd},
                  Name : {<<>>, ImgName},
                  Reference : {<<>>, RefA, RefB}],
     OS : [Version : {<<51, 46, 49>>}],
     Packages : SeqsUpTo({PkgBusybox, PkgGlibc}, MaxPkgs)]

InitSbom ==
    /\ NoBuild
    /\ id = IdleID
    /\ sb \in [phase : {"opts"}, opts : SbomInputs, doc : {NoDocument},
               file : {NoDocument}, err : {NoErr}]

NextSbom == Generate

SpecSbom == InitSbom /\ [][NextSbom]_vars

Written == sb.phase = "done" /\ sb.err = NoErr

Ids(doc) == {doc.Packages[i].ID : i \in 1..Len(doc.Packages)}

HasImage == sb.opts.ImageInfo.ImageDigest # <<>>

\* the identifiers of the nodes of the written document with a description
IdsOf(description) ==
    {sb.file.Packages[i].ID :
        i \in {j \in 1..Len(sb.file.Packages) :
                  sb.file.Packages[j].Description = description}}

Shape ==
    Written =>
        LET k == IF HasImage THEN 1 ELSE 0
            n == Len(sb.opts.Packages)
            ps == sb.file.Packages
            rs == sb.file.Relationships
        IN /\ Len(ps) = k + 1 + n
           /\ HasImage => ps[1].Description = "apko container image"
           /\ ps[k + 1].Description = "apko operating system layer"
           /\ Cardinality({i \in 1..Len(ps) :
                 ps[i].Description = "apko operating system layer"}) = 1
           /\ Cardinality({i \in 1..Len(ps) :
                 ps[i].Description = "apko container image"}) = k
           /\ \A i \in 1..n :
                 /\ ps[k + 1 + i].Name = sb.opts.Packages[i].Name
                 /\ ps[k + 1 + i].Version = sb.opts.Packages[i].Version
                 /\ ps[k + 1 + i].Description = sb.opts.Packages[i].Description
           /\ Len(rs) = k + n
           /\ HasImage =>
                 rs[1] = [Element |-> ps[1].ID, Type |-> "CONTAINS",
                          Related |-> ps[2].ID]
           /\ \A i \in 1..n :
                 rs[k + i] = [Element |-> ps[k + 1].ID, Type |-> "CONTAINS",
                              Related |-> ps[k + 1 + i].ID]

\* one resolved package and an image digest: three nodes, two relationships
ShapeWitness ==
    /\ Written
    /\ HasImage
    /\ Len(sb.opts.Packages) = 1
    /\ Len(sb.file.Packages) = 3
    /\ Len(sb.file.Relationships) = 2

\* the index of the colon of an "algorithm:hex" string
Colon(d) == CHOOSE i \in 1..Len(d) : d[i] = 58 /\ \A j \in 1..(i - 1) : d[j] # 58

ToUpper(s) == [i \in 1..Len(s) |-> IF s[i] \in 97..122 THEN s[i] - 32 ELSE s[i]]

\* C9: the checksum of the image node has the algorithm part of the image
\* digest as algorithm (in capitals) and the part after the colon as value;
\* the layer node has no checksum and every package node has one.
ChecksumSplit ==
    Written =>
        \A i \in 1..Len(sb.file.Packages) :
            LET p == sb.file.Packages[i]
                d == sb.opts.ImageInfo.ImageDigest
            IN CASE p.Description = "apko container image" ->
                      p.Checksums =
                        <<[Algorithm |-> ToUpper(SubSeq(d, 1, Colon(d) - 1)),
                           Value |-> SubSeq(d, Colon(d) + 1, Len(d))]>>
                 [] p.Description = "apko operating system layer" ->
                      p.Checksums = <<>>
                 [] OTHER -> Len(p.Checksums) = 1

-----------------------------------------------------------------------------
(* Properties of buildImage *)

\* the path of the tree each call of buildImage writes
StepPath ==
    [s \in {StepOrder[i] : i \in 1..Len(StepOrder)} |->
        CASE s = "FixateWorld" -> {"apk"}
          [] s = "mutateAccounts" -> {"etc/passwd"}
          [] s = "mutatePaths" -> {"paths"}
          [] s = "GenerateOSRelease" -> {"etc/os-release"}
          [] s = "WriteSupervisionTree" -> {"s6"}
          [] s = "installBusyboxLinks" -> {"usr/bin/busybox-links"}
          [] s = "installLdconfigLinks" -> {"ldconfig"}
          [] s = "installCharDevices" -> {"dev"}
          [] OTHER -> {}]

AlreadyPresentAt(i) ==
    /\ ran[i].step = "GenerateOSRelease"
    /\ Is(ran[i].err, ErrOSReleaseAlreadyPresent)

FatalAt(i) == ran[i].err # NoErr /\ ~AlreadyPresentAt(i)

InPipeline == \E i \in 1..Len(StepOrder) : pc = StepOrder[i]

Finished == pc = "idle" /\ lastCall = "buildImage"

\* C1: the calls of buildImage happen only in the order of StepOrder, the
\* next call is always the next of that order, and once a call has failed
\* fatally no later call is made and no later step's path of the tree has
\* changed since the call began.
PipelineOrder ==
    /\ Len(ran) <= Len(StepOrder)
    /\ \A i \in 1..Len(ran) : ran[i].step = StepOrder[i]
    /\ InPipeline => Len(ran) < Len(StepOrder) /\ pc = StepOrder[Len(ran) + 1]
    /\ \A i \in 1..Len(ran) :
          FatalAt(i) =>
            /\ i = Len(ran)
            /\ ~InPipeline
            /\ \A j \in (i + 1)..Len(StepOrder) :
                  \A p \in StepPath[StepOrder[j]] : tree[p] = tree0[p]

\* account mutation failed: the installer's effect is in the tree, path
\* mutation and the later steps left no trace
PipelineOrderWitness ==
    /\ Finished
    /\ Len(ran) = 3
    /\ ran[3].err # NoErr
    /\ ret # NoErr
    /\ tree["apk"] = 1
    /\ tree["paths"] = 0
    /\ tree["dev"] = 0

\* C2: when GenerateOSRelease reports the file as already present, a warning
\* is logged, the file is as it was, WriteSupervisionTree is next, and the
\* call succeeds when the later steps do; every other error of any step is
\* the last call of buildImage, which then returns an error.
RecoverableCase ==
    \A i \in 1..Len(ran) :
        /\ AlreadyPresentAt(i) =>
              /\ Warning \in log
              /\ tree["etc/os-release"] = tree0["etc/os-release"]
              /\ tree["etc/os-release"] # 0
              /\ Len(ran) = i => pc = "WriteSupervisionTree"
              /\ (Finished /\ \A j \in (i + 1)..Len(ran) : ran[j].err = NoErr) =>
                    /\ Len(ran) = Len(StepOrder)
                    /\ ret = NoErr
        /\ (ran[i].err # NoErr /\ ~AlreadyPresentAt(i)) =>
              /\ i = Len(ran)
              /\ ~InPipeline
              /\ Finished => ret # NoErr

\* the file existed before, buildImage succeeded and the last step ran
RecoverableCaseWitness ==
    /\ Finished
    /\ ret = NoErr
    /\ Len(ran) = Len(StepOrder)
    /\ AlreadyPresentAt(5)
    /\ tree["etc/os-release"] = 2
    /\ tree["dev"] = 1
    /\ Warning \in log

\* the messages buildImage and BuildTarball wrap errors with
StepIdentities ==
    { "installing apk packages", "adding additional tags",
      "failed to mutate accounts", "failed to mutate paths",
      "failed to generate /etc/os-release", "failed to write supervision tree",
      "getting installed packages", "installing busybox links",
      "installing ldconfig links", "installing char devices",
      "opening the build context tarball path failed",
      "failed to construct tarball build context",
      "failed to generate tarball for image", "closing gzip writer",
      "flushing", "stat" }

\* C3: every error a call returns is the underlying error wrapped with the
\* identity of the step that failed.
ErrorsWrapped ==
    (pc = "idle" /\ ret # NoErr) =>
        /\ Len(ret) >= 2
        /\ ret[1] \in StepIdentities
        /\ Tail(ret) \in {EIO, ErrOSReleaseAlreadyPresent}

-----------------------------------------------------------------------------
(* Properties of BuildTarball *)

Succeeded == pc = "idle" /\ lastCall = "BuildTarball" /\ ret = NoErr

\* what a reader of the archive recovers: the plain bytes between header
\* and trailer
Gunzip(z) ==
    LET body == SubSeq(z, Len(GzHeader) + 1, Len(z) - 2)
    IN [i \in 1..Len(body) |-> body[i] - 100]

\* C6: after a successful BuildTarball the diffid accumulator has seen
\* exactly the complete tar stream given to the compressor, the digest
\* accumulator exactly the content of the output file, which decompresses
\* to that tar stream, the size is the length of the file, and the tree
\* was traversed once.
DigestsCorrect ==
    Succeeded =>
        /\ out.diffid = gzwIn
        /\ out.diffid = TarOf(TarEntries(tree), tree, tw.SourceDateEpoch)
        /\ out.digest = outfile
        /\ Gunzip(outfile) = out.diffid
        /\ out.size = Len(outfile)
        /\ buf = <<>>
        /\ gzw.pending = <<>>
        /\ walks = 1
        /\ out.path = o.TarballPath

\* a successful call on a built tree whose archive went through the buffer
\* more than once
DigestsCorrectWitness ==
    /\ Succeeded
    /\ Len(TarEntries(tree)) >= 3
    /\ out.size > 2 * BufSize
    /\ out.digest = outfile

\* C7: two successful runs over the same tree with the same source date
\* epoch give the same archive, digest and diffid, whatever the clock; the
\* time of every entry is the source date epoch.
Deterministic ==
    \A i, j \in 1..Len(results) :
        /\ results[i].diffid =
              TarOf(TarEntries(results[i].tree), results[i].tree, results[i].epoch)
        /\ (results[i].tree = results[j].tree /\ results[i].epoch = results[j].epoch) =>
              /\ results[i].archive = results[j].archive
              /\ results[i].digest = results[j].digest
              /\ results[i].diffid = results[j].diffid

\* two runs over the same built tree at different wall-clock times
DeterministicWitness ==
    /\ Len(results) = 2
    /\ results[1].tree = results[2].tree
    /\ results[1].tree # EmptyTree
    /\ results[1].clock # results[2].clock
    /\ results[1].archive = results[2].archive

-----------------------------------------------------------------------------
(* Properties of the options *)

IsPrefix(s, t) == Len(s) <= Len(t) /\ SubSeq(t, 1, Len(s)) = s

====
